---- MODULE Spec2Model ----
(***************************************************************************)
(* Model of the Global News Tracker API (src/main.py): the FastAPI         *)
(* endpoints GET /news, GET /trends and GET /, the request built for the   *)
(* news provider, and the normalization of the provider's JSON into        *)
(* NewsArticle and Trend records.                                          *)
(*                                                                         *)
(* JSON values are tagged records: [t |-> "missing"] for an absent key,    *)
(* [t |-> "null"] for JSON null / Python None, [t |-> "str", s |-> chars]  *)
(* for a text (a sequence of one-character strings, so that case and       *)
(* substrings are computed), [t |-> "num", n |-> i], [t |-> "obj", ...],   *)
(* [t |-> "list", l |-> seq].  Category URIs are sequences of path         *)
(* segments ("dmoz/Science" is <<"dmoz", "Science">>).                     *)
(***************************************************************************)
EXTENDS Integers, Sequences, FiniteSets, TLC

VARIABLES api_key, base_url, pc, endpoint, q, country, category, sort_by,
          outcome, corpus, now, payload, status, body

vars == <<api_key, base_url, pc, endpoint, q, country, category, sort_by,
          outcome, corpus, now, payload, status, body>>

\* Longest batch the provider answers with in the model.
MaxItems == 2

----------------------------------------------------------------------------
\* JSON / Python values

Missing == [t |-> "missing"]
Null == [t |-> "null"]
Str(s) == [t |-> "str", s |-> s]
Num(n) == [t |-> "num", n |-> n]
Uri(u) == [t |-> "uri", u |-> u]

\* dict.get(key): an absent key reads as None.
Get(v) == IF v = Missing THEN Null ELSE v

\* dict.get(key, default): only an absent key takes the default.
GetDefault(v, d) == IF v = Missing THEN d ELSE v

\* Python truthiness of an Optional[str].
Truthy(v) == v.t = "str" /\ v.s # <<>>

UpperChars == <<"A", "B", "C", "D", "E", "F", "G", "H", "I", "J", "K", "L", "M",
                "N", "O", "P", "Q", "R", "S", "T", "U", "V", "W", "X", "Y", "Z">>
LowerChars == <<"a", "b", "c", "d", "e", "f", "g", "h", "i", "j", "k", "l", "m",
                "n", "o", "p", "q", "r", "s", "t", "u", "v", "w", "x", "y", "z">>

LowerChar(c) ==
    IF \E i \in 1..Len(UpperChars) : UpperChars[i] = c
    THEN LowerChars[CHOOSE i \in 1..Len(UpperChars) : UpperChars[i] = c]
    ELSE c

Lower(s) == [i \in 1..Len(s) |-> LowerChar(s[i])]

\* Python's `x in y` for two sequences of characters (or of path segments).
IsSubstring(x, y) ==
    \E i \in 0..(Len(y) - Len(x)) : \A j \in 1..Len(x) : y[i + j] = x[j]

----------------------------------------------------------------------------
\* Texts used by the code and by the requests and items of the model

T_USA == <<"U", "S", "A">>
T_UK == <<"U", "K">>
T_Japan == <<"J", "a", "p", "a", "n">>
T_Germany == <<"G", "e", "r", "m", "a", "n", "y">>
T_Business == <<"B", "u", "s", "i", "n", "e", "s", "s">>
T_Tech == <<"T", "e", "c", "h">>
T_Politics == <<"P", "o", "l", "i", "t", "i", "c", "s">>
T_Science == <<"S", "c", "i", "e", "n", "c", "e">>
T_Health == <<"H", "e", "a", "l", "t", "h">>
T_General == <<"G", "e", "n", "e", "r", "a", "l">>
T_NoTitle == <<"N", "o", " ", "T", "i", "t", "l", "e">>
T_UnknownSource == <<"U", "n", "k", "n", "o", "w", "n", " ", "S", "o", "u", "r", "c", "e">>
T_business == <<"b", "u", "s", "i", "n", "e", "s", "s">>

\* Mappings for newsapi.ai; sequences, in the dicts' insertion order.
COUNTRY_URIS ==
    << [k |-> T_USA, v |-> "http://en.wikipedia.org/wiki/United_States"],
       [k |-> T_UK, v |-> "http://en.wikipedia.org/wiki/United_Kingdom"],
       [k |-> T_Japan, v |-> "http://en.wikipedia.org/wiki/Japan"],
       [k |-> T_Germany, v |-> "http://en.wikipedia.org/wiki/Germany"] >>

CATEGORY_URIS ==
    << [k |-> T_Business, v |-> <<"dmoz", "Business">>],
       [k |-> T_Tech, v |-> <<"dmoz", "Computers", "Technology">>],
       [k |-> T_Politics, v |-> <<"dmoz", "Society", "Politics">>],
       [k |-> T_Science, v |-> <<"dmoz", "Science">>],
       [k |-> T_Health, v |-> <<"dmoz", "Health">>] >>

SORT_BY_MAP ==
    << [k |-> "newest", v |-> "date"],
       [k |-> "relevance", v |-> "rel"],
       [k |-> "source", v |-> "sourceImportance"] >>

\* `key in table`
HasKey(table, key) == \E i \in 1..Len(table) : table[i].k = key

\* table[key], for a key of the table
Lookup(table, key) == table[CHOOSE i \in 1..Len(table) : table[i].k = key].v

\* table.get(key, default)
LookupDefault(table, key, default) ==
    IF HasKey(table, key) THEN Lookup(table, key) ELSE default

\* next((k for k, v in table.items() if P(v)), default): the key of the first
\* entry, in the table's order, whose value satisfies P; `hits` are the
\* positions of the entries that satisfy it.
FirstKey(table, hits, default) ==
    IF hits # {}
    THEN Str(table[CHOOSE i \in hits : \A j \in hits : i <= j].k)
    ELSE default

----------------------------------------------------------------------------
\* scrape_real_news: configuration check and the request payload

\* ConfigError without the test for the placeholder key.
ConfigError_NoPlaceholder(key, url) ==
    IF key = Null \/ key.v = "" THEN "NEWS_API_KEY"
    ELSE IF url = Null \/ url.v = "" THEN "NEWS_API_AI_BASE_URL"
    ELSE "none"

\* `not api_key or api_key == "YOUR_API_KEY_HERE"`, then `not base_url`
ConfigError(key, url) ==
    IF key = Null \/ key.v = "" \/ key.v = "YOUR_API_KEY_HERE" THEN "NEWS_API_KEY"
    ELSE IF url = Null \/ url.v = "" THEN "NEWS_API_AI_BASE_URL"
    ELSE "none"

\* PayloadLocation that never sets the filter.
PayloadLocation_Never(c) == Missing

\* payload["sourceLocationUri"], set only for a key of COUNTRY_URIS
PayloadLocation(c) ==
    IF Truthy(c) /\ HasKey(COUNTRY_URIS, c.s)
    THEN Uri(Lookup(COUNTRY_URIS, c.s)) ELSE Missing

\* payload["categoryUri"], set only for a key of CATEGORY_URIS
PayloadCategory(c) ==
    IF Truthy(c) /\ HasKey(CATEGORY_URIS, c.s)
    THEN [t |-> "path", p |-> Lookup(CATEGORY_URIS, c.s)] ELSE Missing

\* PayloadKeyword without the default keyword: the empty keyword matches all.
PayloadKeyword_NoDefault(term) == IF Truthy(term) THEN term.s ELSE <<>>

\* payload["keyword"]
PayloadKeyword(term) == IF Truthy(term) THEN term.s ELSE T_business

\* payload["articlesSortBy"]
PayloadSortBy(sb) == LookupDefault(SORT_BY_MAP, sb, "date")

BuildPayload(key, term, c, cat, sb) ==
    [action |-> "getArticles",
     articlesPage |-> 1,
     articlesCount |-> 20,
     articlesSortBy |-> PayloadSortBy(sb),
     articlesSortByAsc |-> FALSE,
     articlesArticleBodyLen |-> -1,
     resultType |-> "articles",
     dataType |-> <<"news", "blog">>,
     apiKey |-> key.v,
     forceMaxDataTimeWindow |-> 31,
     keyword |-> PayloadKeyword(term),
     sourceLocationUri |-> PayloadLocation(c),
     categoryUri |-> PayloadCategory(cat)]

----------------------------------------------------------------------------
\* scrape_real_news: normalization of one raw item into a NewsArticle

\* timestamp: datetime.now(), replaced by the parsed dateTimePub when that is
\* truthy and datetime.fromisoformat accepts it.  A value [t |-> "iso"] is a
\* string in ISO format naming the instant `time`; any other string makes
\* fromisoformat raise ValueError, which is caught.
ParseTimestamp(published_at, current) ==
    IF published_at = Null \/ (published_at.t = "str" /\ published_at.s = <<>>)
    THEN current
    ELSE IF published_at.t = "iso" THEN published_at.time
    ELSE current

\* item.get("source", {}).get("title", "Unknown Source")
SourceTitle(item) ==
    GetDefault(GetDefault(item.source, [t |-> "obj", title |-> Missing]).title,
               Str(T_UnknownSource))

\* item.get("location", {}).get("country", {}).get("uri")
CountryUri(item) ==
    Get(GetDefault(GetDefault(item.location, [t |-> "obj", country |-> Missing]).country,
                   [t |-> "obj", uri |-> Missing]).uri)

\* `v in item.get("categories", [])`: membership in a list, substring of a string
InCategories(v, cats) ==
    IF cats.t = "list" THEN \E i \in 1..Len(cats.l) : cats.l[i] = v
    ELSE IsSubstring(v, cats.p)

\* ArticleCountry that passes the raw URI on when the table has no key for it.
ArticleCountry_RawUri(item) ==
    LET uri == CountryUri(item)
        hits == {i \in 1..Len(COUNTRY_URIS) : Uri(COUNTRY_URIS[i].v) = uri}
    IN FirstKey(COUNTRY_URIS, hits, uri)

\* country=next((k for k, v in COUNTRY_URIS.items() if v == uri), None)
ArticleCountry(item) ==
    LET uri == CountryUri(item)
        hits == {i \in 1..Len(COUNTRY_URIS) : Uri(COUNTRY_URIS[i].v) = uri}
    IN FirstKey(COUNTRY_URIS, hits, Null)

\* ArticleCategory that defaults to "General" only for an absent categories
\* key, and to None for categories that map to no key.
ArticleCategory_AbsentWhenUnmapped(item) ==
    LET cats == GetDefault(item.categories, [t |-> "list", l |-> <<>>])
        hits == {i \in 1..Len(CATEGORY_URIS) : InCategories(CATEGORY_URIS[i].v, cats)}
    IN FirstKey(CATEGORY_URIS, hits,
                IF item.categories = Missing THEN Str(T_General) ELSE Null)

\* category=next((k for k, v in CATEGORY_URIS.items() if v in categories), "General")
ArticleCategory(item) ==
    LET cats == GetDefault(item.categories, [t |-> "list", l |-> <<>>])
        hits == {i \in 1..Len(CATEGORY_URIS) : InCategories(CATEGORY_URIS[i].v, cats)}
    IN FirstKey(CATEGORY_URIS, hits, Str(T_General))

\* The exception the construction of the article raises, "none" when it
\* succeeds: the keyword arguments are evaluated in order, then pydantic
\* validates the required str fields.
ItemError(item) ==
    IF item.source = Null THEN "AttributeError"
    ELSE IF item.location = Null THEN "AttributeError"
    ELSE IF item.location # Missing /\ item.location.country = Null THEN "AttributeError"
    ELSE IF item.categories = Null THEN "TypeError"
    ELSE IF GetDefault(item.title, Str(T_NoTitle)).t # "str" THEN "ValidationError"
    ELSE IF SourceTitle(item).t # "str" THEN "ValidationError"
    ELSE "none"

NewsArticle(i, item, current) ==
    [id |-> i,
     title |-> GetDefault(item.title, Str(T_NoTitle)),
     summary |-> Get(item.body),
     source |-> SourceTitle(item),
     timestamp |-> ParseTimestamp(Get(item.dateTimePub), current),
     imageUrl |-> Get(item.image),
     country |-> ArticleCountry(item),
     category |-> ArticleCategory(item),
     relevance_score |-> GetDefault(item.relevance, Num(0))]

\* data.get("articles", {}).get("results", [])
Results(data) ==
    GetDefault(GetDefault(data.articles, [t |-> "obj", results |-> Missing]).results,
               [t |-> "list", l |-> <<>>]).l

\* The loop over the results: the articles, or the exception of the first item
\* whose construction raises.
Normalize(items, current) ==
    IF \E i \in 1..Len(items) : ItemError(items[i]) # "none"
    THEN [ok |-> FALSE,
          exc |-> ItemError(items[CHOOSE i \in 1..Len(items) :
                                    /\ ItemError(items[i]) # "none"
                                    /\ \A j \in 1..(i - 1) : ItemError(items[j]) = "none"])]
    ELSE [ok |-> TRUE,
          articles |-> [i \in 1..Len(items) |-> NewsArticle(i, items[i], current)]]

----------------------------------------------------------------------------
\* The news provider behind requests.post(url, json=payload).  It is not part
\* of the repository; the model takes a provider that honours the request:
\* it holds a corpus of raw items, keeps those matching the payload's keyword
\* (in the title or the body, ignoring case), sourceLocationUri and
\* categoryUri, orders them by articlesSortBy in the direction of
\* articlesSortByAsc, and returns the first articlesCount of them.

ItemText(v) == IF v.t = "str" THEN v.s ELSE <<>>

ItemLocation(item) ==
    IF item.location.t = "obj" /\ item.location.country.t = "obj"
    THEN item.location.country.uri ELSE Missing

ItemCategories(item) ==
    IF item.categories.t = "list"
    THEN {item.categories.l[i] : i \in 1..Len(item.categories.l)} ELSE {}

ItemTime(item) == IF item.dateTimePub.t = "iso" THEN item.dateTimePub.time ELSE 0

ItemRelevance(item) == IF item.relevance.t = "num" THEN item.relevance.n ELSE 0

ProviderMatch(p, item) ==
    /\ \/ IsSubstring(Lower(p.keyword), Lower(ItemText(item.title)))
       \/ IsSubstring(Lower(p.keyword), Lower(ItemText(item.body)))
    /\ p.sourceLocationUri # Missing => ItemLocation(item) = p.sourceLocationUri
    /\ p.categoryUri # Missing => p.categoryUri.p \in ItemCategories(item)

\* Stable sort of items by keys[i], the key of items[i], ascending or descending.
SortBy(items, keys, asc) ==
    LET n == Len(items)
        Before(j, i) ==
            \/ IF asc THEN keys[j] < keys[i] ELSE keys[j] > keys[i]
            \/ keys[j] = keys[i] /\ j < i
        Rank(i) == 1 + Cardinality({j \in 1..n : Before(j, i)})
    IN [r \in 1..n |-> items[CHOOSE i \in 1..n : Rank(i) = r]]

ProviderOrder(p, items) ==
    IF p.articlesSortBy = "date"
    THEN SortBy(items, [i \in 1..Len(items) |-> ItemTime(items[i])], p.articlesSortByAsc)
    ELSE IF p.articlesSortBy = "rel"
    THEN SortBy(items, [i \in 1..Len(items) |-> ItemRelevance(items[i])],
                p.articlesSortByAsc)
    ELSE items

ProviderResults(p, items) ==
    LET Hit(item) == ProviderMatch(p, item)
        found == ProviderOrder(p, SelectSeq(items, Hit))
    IN SubSeq(found, 1, IF Len(found) < p.articlesCount THEN Len(found)
                        ELSE p.articlesCount)

\* What requests.post / raise_for_status / response.json() can end in.
\*   "ok"            2xx with the provider's results
\*   "no_articles"   2xx with a JSON object that has no "articles" key
\*   "network_error" requests.post raises ConnectionError
\*   "http_error"    non-2xx: raise_for_status raises HTTPError
Outcomes == {"ok", "no_articles", "network_error", "http_error"}

ResponseData(out, p, items) ==
    IF out = "ok"
    THEN [articles |-> [t |-> "obj",
                        results |-> [t |-> "list", l |-> ProviderResults(p, items)]]]
    ELSE [articles |-> Missing]

----------------------------------------------------------------------------
\* scrape_real_news and GET /news

\* scrape_real_news whose except clause misses the HTTPError of raise_for_status.
scrape_real_news_HttpErrorRaised(key, url, term, c, cat, sb, out, items, current) ==
    IF ConfigError(key, url) # "none" THEN [ok |-> TRUE, articles |-> <<>>]
    ELSE IF out = "network_error" THEN [ok |-> TRUE, articles |-> <<>>]
    ELSE IF out = "http_error" THEN [ok |-> FALSE, exc |-> "HTTPError"]
    ELSE Normalize(Results(ResponseData(out, BuildPayload(key, term, c, cat, sb), items)),
                   current)

\* The list scrape_real_news returns, or the exception it lets through.
scrape_real_news(key, url, term, c, cat, sb, out, items, current) ==
    IF ConfigError(key, url) # "none" THEN [ok |-> TRUE, articles |-> <<>>]
    ELSE IF out \in {"network_error", "http_error"} THEN [ok |-> TRUE, articles |-> <<>>]
    ELSE Normalize(Results(ResponseData(out, BuildPayload(key, term, c, cat, sb), items)),
                   current)

\* The HTTP response of the endpoint: an exception that is not handled
\* becomes FastAPI's 500.
NewsResponse(r) ==
    IF r.ok THEN [status |-> 200, body |-> [articles |-> r.articles]]
    ELSE [status |-> 500, body |-> [detail |-> "Internal Server Error", exc |-> r.exc]]

----------------------------------------------------------------------------
\* GET /trends

\* data.get("trends", {}).get("trends", {}).get("results", [])
TrendResults(data) ==
    GetDefault(GetDefault(GetDefault(data.trends,
                                     [t |-> "obj", trends |-> Missing]).trends,
                          [t |-> "obj", results |-> Missing]).results,
               [t |-> "list", l |-> <<>>]).l

TrendsData(out, entries) ==
    IF out = "ok"
    THEN [trends |-> [t |-> "obj",
                      trends |-> [t |-> "obj",
                                  results |-> [t |-> "list", l |-> entries]]]]
    ELSE [trends |-> Missing]

\* Trend(uri=t.get("uri"), label=t.get("label"), score=t.get("score")):
\* pydantic rejects None for the required str and float fields.
TrendError(entry) ==
    IF Get(entry.uri).t # "str" \/ Get(entry.label).t # "str" \/ Get(entry.score).t # "num"
    THEN "ValidationError" ELSE "none"

Trend(entry) == [uri |-> entry.uri, label |-> entry.label, score |-> entry.score]

\* The list comprehension over trends_data.
NormalizeTrends(entries) ==
    IF \E i \in 1..Len(entries) : TrendError(entries[i]) # "none"
    THEN [ok |-> FALSE, exc |-> "ValidationError"]
    ELSE [ok |-> TRUE, trends |-> [i \in 1..Len(entries) |-> Trend(entries[i])]]

get_trends(key, url, out, entries) ==
    IF ConfigError(key, url) # "none" THEN [ok |-> TRUE, trends |-> <<>>]
    ELSE IF out \in {"network_error", "http_error"} THEN [ok |-> TRUE, trends |-> <<>>]
    ELSE NormalizeTrends(TrendResults(TrendsData(out, entries)))

TrendsResponse(r) ==
    IF r.ok THEN [status |-> 200, body |-> [trends |-> r.trends]]
    ELSE [status |-> 500, body |-> [detail |-> "Internal Server Error", exc |-> r.exc]]

----------------------------------------------------------------------------
\* Inputs of the model: the configuration, the query parameters, and the raw
\* items and trend entries the provider holds.

Env(v) == [t |-> "env", v |-> v]

ApiKeys == {Null, Env(""), Env("YOUR_API_KEY_HERE"), Env("secret")}
BaseUrls == {Null, Env(""), Env("https://eventregistry.org/api/v1")}

X_tech == <<"t", "e", "c", "h">>
X_usa == <<"u", "s", "a">>
X_Mars == <<"M", "a", "r", "s">>
X_Fed == <<"F", "e", "d">>
X_TECH == <<"T", "E", "C", "H">>
X_AP == <<"A", "P">>
X_both == <<"b", "u", "s", "i", "n", "e", "s", "s", " ", "t", "e", "c", "h">>
X_junk == <<"x">>

Terms == {Null, Str(<<>>), Str(X_tech)}
Countries == {Null, Str(T_USA), Str(X_usa), Str(X_Mars)}
Categories == {Null, Str(T_Tech)}
SortKeys == {"newest", "oldest", "relevance", "source"}
NowTimes == {9}

Source(name) == [t |-> "obj", title |-> name]
Location(uri) == [t |-> "obj", country |-> [t |-> "obj", uri |-> uri]]
List(l) == [t |-> "list", l |-> l]
Iso(n) == [t |-> "iso", time |-> n]

\* A raw item with every field absent but the body.
Bare ==
    [title |-> Missing, body |-> Str(X_both), source |-> Missing,
     dateTimePub |-> Missing, image |-> Missing, location |-> Missing,
     categories |-> Missing, relevance |-> Missing]

WellFormed ==
    { [title |-> Str(T_Tech), body |-> Missing, source |-> Source(Str(X_AP)),
       dateTimePub |-> Iso(2), image |-> Str(X_junk),
       location |-> Location(Uri("http://en.wikipedia.org/wiki/United_States")),
       categories |-> List(<< <<"dmoz", "Computers", "Technology">> >>),
       relevance |-> Num(5)],
      [title |-> Str(X_Fed), body |-> Str(T_business), source |-> Source(Str(X_AP)),
       dateTimePub |-> Iso(1), image |-> Missing,
       location |-> Location(Uri("http://en.wikipedia.org/wiki/United_Kingdom")),
       categories |-> List(<< <<"dmoz", "Business">> >>),
       relevance |-> Missing],
      [title |-> Str(X_TECH), body |-> Str(T_Business), source |-> Source(Str(X_Fed)),
       dateTimePub |-> Iso(3), image |-> Missing,
       location |-> Location(Uri("http://en.wikipedia.org/wiki/United_States")),
       categories |-> List(<< <<"dmoz", "Science">>, <<"dmoz", "Business">> >>),
       relevance |-> Num(7)],
      [title |-> Str(X_both), body |-> Missing, source |-> Source(Str(X_Fed)),
       dateTimePub |-> Iso(4), image |-> Missing,
       location |-> Location(Uri("http://en.wikipedia.org/wiki/France")),
       categories |-> List(<< <<"dmoz", "Sports">> >>),
       relevance |-> Num(1)] }

Malformed ==
    { Bare,
      [Bare EXCEPT !.title = Null],
      [Bare EXCEPT !.title = Str(<<>>), !.source = Source(Str(<<>>))],
      [Bare EXCEPT !.source = Null],
      [Bare EXCEPT !.source = Source(Missing), !.dateTimePub = Str(X_junk),
                   !.relevance = Null, !.location = Location(Null),
                   !.categories = List(<<>>)],
      [Bare EXCEPT !.categories = Null],
      [Bare EXCEPT !.categories = [t |-> "pathstr", p |-> <<"dmoz", "Health", "Fitness">>]] }

RawItems == WellFormed \cup Malformed

TrendEntries ==
    { [uri |-> Str(X_tech), label |-> Str(T_Tech), score |-> Num(9)],
      [uri |-> Str(X_Fed), label |-> Str(X_Fed), score |-> Num(5)],
      [uri |-> Missing, label |-> Str(X_Fed), score |-> Num(5)],
      [uri |-> Str(X_Fed), label |-> Null, score |-> Num(5)],
      [uri |-> Str(X_Fed), label |-> Str(X_Fed), score |-> Missing] }

\* The sequences over S of length at most n.
SeqsUpTo(S, n) == UNION {[1..k -> S] : k \in 0..n}

----------------------------------------------------------------------------
\* The service: one request at a time

Init ==
    /\ api_key \in ApiKeys
    /\ base_url \in BaseUrls
    /\ pc = "idle"
    /\ endpoint = "none"
    /\ q = Null /\ country = Null /\ category = Null /\ sort_by = "newest"
    /\ outcome = "none"
    /\ corpus = <<>>
    /\ now = 0
    /\ payload = Missing
    /\ status = 0
    /\ body = Missing

\* The upstream call: made only with a usable configuration.
Called == ConfigError(api_key, base_url) = "none"

\* The outcomes of the upstream call, "ok" standing in when no call is made.
UpstreamOutcomes == IF Called THEN Outcomes ELSE {"ok"}

\* What the provider holds when it answers with results.
Held(out, S) == IF Called /\ out = "ok" THEN SeqsUpTo(S, MaxItems) ELSE {<<>>}

\* @app.get("/news")
GetNews ==
    /\ pc = "idle"
    /\ \E term \in Terms, c \in Countries, cat \in Categories, sb \in SortKeys,
          out \in UpstreamOutcomes :
       \E items \in Held(out, RawItems), current \in NowTimes :
          /\ LET r == NewsResponse(scrape_real_news(api_key, base_url, term, c, cat, sb,
                                                    out, items, current))
             IN /\ status' = r.status
                /\ body' = r.body
          /\ q' = term /\ country' = c /\ category' = cat /\ sort_by' = sb
          /\ outcome' = IF Called THEN out ELSE "not_called"
          /\ corpus' = items
          /\ now' = current
          /\ payload' = IF Called THEN BuildPayload(api_key, term, c, cat, sb) ELSE Missing
    /\ endpoint' = "/news"
    /\ pc' = "responded"
    /\ UNCHANGED <<api_key, base_url>>

\* @app.get("/trends")
GetTrends ==
    /\ pc = "idle"
    /\ \E out \in UpstreamOutcomes :
       \E entries \in Held(out, TrendEntries) :
          /\ LET r == TrendsResponse(get_trends(api_key, base_url, out, entries))
             IN /\ status' = r.status
                /\ body' = r.body
          /\ outcome' = IF Called THEN out ELSE "not_called"
          /\ corpus' = entries
          /\ payload' = IF Called THEN [apiKey |-> api_key.v, source |-> "news"] ELSE Missing
    /\ endpoint' = "/trends"
    /\ pc' = "responded"
    /\ UNCHANGED <<api_key, base_url, q, country, category, sort_by, now>>

\* @app.get("/")
ReadRoot ==
    /\ pc = "idle"
    /\ endpoint' = "/"
    /\ status' = 200
    /\ body' = [message |-> "Welcome to the Global News Tracker API"]
    /\ pc' = "responded"
    /\ UNCHANGED <<api_key, base_url, q, country, category, sort_by, outcome, corpus,
                   now, payload>>

\* The response is delivered; the service holds nothing of the request.
Deliver ==
    /\ pc = "responded"
    /\ pc' = "idle"
    /\ endpoint' = "none"
    /\ q' = Null /\ country' = Null /\ category' = Null /\ sort_by' = "newest"
    /\ outcome' = "none"
    /\ corpus' = <<>>
    /\ now' = 0
    /\ payload' = Missing
    /\ status' = 0
    /\ body' = Missing
    /\ UNCHANGED <<api_key, base_url>>

Next == GetNews \/ GetTrends \/ ReadRoot \/ Deliver

Spec == Init /\ [][Next]_vars

----------------------------------------------------------------------------
\* Properties

\* A GET /news that got an answer from the handler.
NewsAnswered == pc = "responded" /\ endpoint = "/news"

\* A GET /news answered 200 after the provider returned results.
NewsOk == NewsAnswered /\ outcome = "ok" /\ status = 200

\* The raw items the provider returned for the request in the state.
Returned == ProviderResults(payload, corpus)

\* `term` occurs, ignoring case, in the title or the summary that
\* normalization gives the raw item.
TermOccurs(term, item) ==
    LET title == GetDefault(item.title, Str(T_NoTitle))
        summary == Get(item.body)
    IN \/ title.t = "str" /\ IsSubstring(Lower(term), Lower(title.s))
       \/ summary.t = "str" /\ IsSubstring(Lower(term), Lower(summary.s))

TermInArticle(term, a) ==
    \/ IsSubstring(Lower(term), Lower(a.title.s))
    \/ a.summary.t = "str" /\ IsSubstring(Lower(term), Lower(a.summary.s))

\* How many items of the corpus have `term` in their title or summary.
CountOccurs(term) == Cardinality({i \in 1..Len(corpus) : TermOccurs(term, corpus[i])})

\* C1: when the upstream call of GET /news ends in a network failure or a
\* non-success HTTP status, the endpoint answers 200 with an empty article
\* list; the failure is not propagated.
C1_UpstreamFailureGivesEmptyList ==
    (NewsAnswered /\ outcome \in {"network_error", "http_error"})
        => (status = 200 /\ body = [articles |-> <<>>])

C1_Witness ==
    /\ NewsAnswered /\ outcome = "http_error" /\ payload # Missing
    /\ status = 200 /\ body = [articles |-> <<>>]

\* C2: normalization returns exactly one article per raw item the provider
\* returned, in input order, each with a non-empty title and a non-empty
\* source, and a malformed item never fails the request.
C2_OneArticlePerItem ==
    (NewsAnswered /\ outcome = "ok")
        => /\ status = 200
           /\ Len(body.articles) = Len(Returned)
           /\ \A i \in 1..Len(body.articles) :
                 /\ body.articles[i].id = i
                 /\ body.articles[i].summary = Get(Returned[i].body)
                 /\ body.articles[i].title.s # <<>>
                 /\ body.articles[i].source.s # <<>>

\* C3: the term filter is optional and exact: with a term q, an article is in
\* the result iff q occurs, ignoring case, in its title or summary; with q
\* absent or empty, no article is excluded because of its text.
C3_TermFilterOptional ==
    (NewsOk /\ country = Null /\ category = Null)
        => /\ Len(body.articles) = IF Truthy(q) THEN CountOccurs(q.s) ELSE Len(corpus)
           /\ \A i \in 1..Len(body.articles) :
                 Truthy(q) => TermInArticle(q.s, body.articles[i])

\* The keyword the request searches for: q, or "business" without one.
C3_Keyword == IF Truthy(q) THEN q.s ELSE T_business

\* C3, amended: the term filter is not optional.  The keyword sent to the
\* provider is q when q is non-empty and "business" when q is absent or
\* empty, and the result holds exactly the articles in whose title or summary
\* that keyword occurs, ignoring case.
C3_TermFilterDefaultsToBusiness ==
    NewsOk
        => /\ payload.keyword = C3_Keyword
           /\ (country = Null /\ category = Null)
                 => Len(body.articles) = CountOccurs(C3_Keyword)
           /\ \A i \in 1..Len(body.articles) :
                 TermInArticle(C3_Keyword, body.articles[i])

C3_Witness ==
    /\ NewsOk /\ q = Null /\ country = Null /\ category = Null
    /\ Len(body.articles) = 1
    /\ Len(corpus) = 2
    /\ \E i \in 1..Len(corpus) : ~TermOccurs(T_business, corpus[i])

C5_CountryCaseInsensitive ==
    (NewsAnswered /\ outcome = "ok" /\ Truthy(country))
        => \A c \in Countries :
              (Truthy(c) /\ Lower(c.s) = Lower(country.s))
                 => NewsResponse(scrape_real_news(api_key, base_url, q, c, category,
                                                  sort_by, outcome, corpus, now))
                       = [status |-> status, body |-> body]

Timestamps(articles) == [i \in 1..Len(articles) |-> articles[i].timestamp]

Reverse(seq) == [i \in 1..Len(seq) |-> seq[Len(seq) + 1 - i]]

\* C6: for an article set without equal timestamps, sort_by = "oldest" returns
\* the articles in ascending timestamp order, the exact reverse of the order
\* sort_by = "newest" returns.
C6_OldestIsAscending ==
    (NewsOk /\ sort_by = "oldest")
        => LET ts == Timestamps(body.articles)
               newest == scrape_real_news(api_key, base_url, q, country, category,
                                          "newest", outcome, corpus, now)
           IN (\A i, j \in 1..Len(ts) : i # j => ts[i] # ts[j])
                 => /\ \A i, j \in 1..Len(ts) : i < j => ts[i] < ts[j]
                    /\ newest.ok
                    /\ ts = Reverse(Timestamps(newest.articles))

\* The API key or the base URL is unusable.
C7_Unconfigured ==
    \/ api_key \in {Null, Env(""), Env("YOUR_API_KEY_HERE")}
    \/ base_url \in {Null, Env("")}

\* C7: with the API key missing or the placeholder, or the base URL missing,
\* GET /news returns an empty article list and GET /trends an empty trend
\* list, both with status 200.
C7_UnconfiguredGivesEmpty ==
    (pc = "responded" /\ C7_Unconfigured)
        => /\ endpoint = "/news" => (status = 200 /\ body = [articles |-> <<>>])
           /\ endpoint = "/trends" => (status = 200 /\ body = [trends |-> <<>>])
           /\ endpoint \in {"/news", "/trends"} => (payload = Missing /\ corpus = <<>>)

C7_Witness ==
    /\ pc = "responded" /\ endpoint = "/trends"
    /\ api_key = Env("YOUR_API_KEY_HERE")
    /\ base_url = Env("https://eventregistry.org/api/v1")
    /\ status = 200 /\ body = [trends |-> <<>>]

C8_WellFormed(entry) ==
    entry.uri.t = "str" /\ entry.label.t = "str" /\ entry.score.t = "num"

\* C8: GET /trends skips every entry whose uri, label or score is missing or
\* malformed and returns the well-formed ones, with status 200.
C8_MalformedTrendsSkipped ==
    (pc = "responded" /\ endpoint = "/trends" /\ outcome = "ok")
        => /\ status = 200
           /\ body.trends = SelectSeq(corpus, C8_WellFormed)

\* The raw categories of an item, none for an absent key.
C9_Categories(item) == GetDefault(item.categories, List(<<>>))

\* The entries of the category table whose URI is among the raw categories.
C9_Mapped(item) ==
    {k \in 1..Len(CATEGORY_URIS) : InCategories(CATEGORY_URIS[k].v, C9_Categories(item))}

\* C9: an article's category is the label of the first raw category URI
\* found in the category table; it is "General" only when the raw item has
\* no category data at all, and absent when it has category data of which
\* none maps to the table.
C9_CategoryAbsentWhenUnmapped ==
    NewsOk
        => \A i \in 1..Len(body.articles) :
              LET item == Returned[i]
                  cat == body.articles[i].category
              IN /\ item.categories = Missing => cat = Str(T_General)
                 /\ (item.categories # Missing /\ C9_Mapped(item) = {}) => cat = Null
                 /\ (item.categories.t = "list" /\ C9_Mapped(item) # {})
                       => LET first == CHOOSE n \in 1..Len(item.categories.l) :
                                 /\ \E k \in C9_Mapped(item) :
                                       CATEGORY_URIS[k].v = item.categories.l[n]
                                 /\ \A m \in 1..(n - 1) : \A k \in C9_Mapped(item) :
                                       CATEGORY_URIS[k].v # item.categories.l[m]
                          IN \E k \in C9_Mapped(item) :
                                /\ CATEGORY_URIS[k].v = item.categories.l[first]
                                /\ cat = Str(CATEGORY_URIS[k].k)

\* C9, amended: an article's category is the key of the first entry of the
\* category table, in the table's order, whose URI is among the raw
\* categories; it is "General" whenever no entry's URI is among them, with
\* no category data as with unmapped category data; it is never absent.
C9_CategoryGeneralWhenUnmapped ==
    NewsOk
        => \A i \in 1..Len(body.articles) :
              LET item == Returned[i]
                  cat == body.articles[i].category
              IN /\ cat # Null
                 /\ C9_Mapped(item) = {} => cat = Str(T_General)
                 /\ C9_Mapped(item) # {}
                       => \E k \in C9_Mapped(item) :
                             /\ \A j \in C9_Mapped(item) : k <= j
                             /\ cat = Str(CATEGORY_URIS[k].k)

C9_Witness ==
    /\ NewsOk
    /\ \E i \in 1..Len(body.articles) :
          /\ Returned[i].categories = List(<< <<"dmoz", "Sports">> >>)
          /\ body.articles[i].category = Str(T_General)
    /\ \E i \in 1..Len(body.articles) :
          /\ Returned[i].categories = List(<< <<"dmoz", "Science">>, <<"dmoz", "Business">> >>)
          /\ body.articles[i].category = Str(T_Business)

\* C10: in every article returned, country is absent or a key of the country
\* table, and category is absent, "General" or a key of the category table;
\* neither holds a raw provider URI.
C10_CanonicalLabelsOnly ==
    NewsOk
        => \A i \in 1..Len(body.articles) :
              LET a == body.articles[i]
              IN /\ \/ a.country = Null
                    \/ a.country.t = "str"
                       /\ a.country.s \in {T_USA, T_UK, T_Japan, T_Germany}
                 /\ \/ a.category = Null
                    \/ a.category.t = "str"
                       /\ a.category.s \in {T_General, T_Business, T_Tech, T_Politics,
                                            T_Science, T_Health}

C10_Witness ==
    /\ NewsOk
    /\ \E i \in 1..Len(body.articles) :
          /\ CountryUri(Returned[i]) = Uri("http://en.wikipedia.org/wiki/France")
          /\ body.articles[i].country = Null
    /\ \E i \in 1..Len(body.articles) :
          /\ CountryUri(Returned[i]) = Uri("http://en.wikipedia.org/wiki/United_States")
          /\ body.articles[i].country = Str(T_USA)

====
